---- MODULE Spec2Model ----
(***************************************************************************)
(* Model of auto_star.py: the module-level credential check, main() with   *)
(* its target loop, its repository loop and the two catch levels, and the  *)
(* remote platform state the calls read and write (who starred what).      *)
(* Every remote call is one step and may raise; other accounts may star a  *)
(* repository of the target at hand between any two steps of its pass.     *)
(***************************************************************************)
EXTENDS Integers, Sequences, FiniteSets, TLC

\* ---- bounds of the model ------------------------------------------------
MaxTargets == 2
MaxRepos == 3
MaxLimit == 2
MaxOtherStars == 1

\* ---- the platform's accounts and repositories ---------------------------
Accounts == {"alice", "bob"}

\* alice owns MaxRepos repositories, bob owns one
RepoCount(a) == IF a = "alice" THEN MaxRepos ELSE 1

\* a repository is <<owner, creation time>>
AllRepos == UNION {{<<a, c>> : c \in 1..RepoCount(a)} : a \in Accounts}

\* the target lists tried: alice and bob in turn, or alice again and again
Alternating(n) == [j \in 1..n |-> IF j % 2 = 1 THEN "alice" ELSE "bob"]

Repeated(n) == [j \in 1..n |-> "alice"]

TargetLists == {Alternating(n) : n \in 0..MaxTargets} \cup {Repeated(n) : n \in 0..MaxTargets}

VARIABLES
  tokenPresent,   \* TOKEN is a non-empty string
  targetsFound,   \* TARGET_USERS is set or targets.txt exists
  targets,        \* what load_target_users() returns
  CHECK_LIMIT,
  starredByMe,    \* remote: repositories the acting account has starred
  otherStars,     \* remote: stars of other accounts, per repository
  pc,
  me,             \* the authenticated user object exists
  k,              \* position of target_username in targets (1-based), 0 before the loop
  i,              \* enumerate index of the repository loop
  repos,          \* the records the listing delivered (snapshot at fetch time)
  current_stars,
  exitStatus,     \* -1 while running
  authCalls,      \* history: calls of g.get_user()
  resolveCount,   \* history: calls of g.get_user(target_username), per position
  listCount,      \* history: calls of get_repos, per position
  caught,         \* history: what the target-level handler caught in the current pass
  examined,       \* history: the repositories queried in the current pass, in order
  lastFailed,     \* history: enumerate index of the last repository-level failure, or -1
  log,            \* history: remote calls and signals of the current iteration
  rateFailed      \* history: the rate report raised

vars == <<tokenPresent, targetsFound, targets, CHECK_LIMIT, starredByMe, otherStars,
          pc, me, k, i, repos, current_stars, exitStatus, authCalls, resolveCount,
          listCount, caught, examined, lastFailed, log, rateFailed>>

config == <<tokenPresent, targetsFound, targets, CHECK_LIMIT>>
remote == <<starredByMe, otherStars>>
hist == <<authCalls, resolveCount, listCount, caught, examined, lastFailed, log, rateFailed>>

\* ---- the platform ---------------------------------------------------------
\* stargazers_count as the platform holds it now
stargazers_count(r) == otherStars[r] + (IF r \in starredByMe THEN 1 ELSE 0)

\* get_repos(sort="created", direction="desc"): newest first, with the counts of now
get_repos(a) ==
  [j \in 1..RepoCount(a) |->
     [full_name |-> <<a, RepoCount(a) + 1 - j>>,
      stargazers_count |-> stargazers_count(<<a, RepoCount(a) + 1 - j>>)]]

RECURSIVE SumOver(_, _)
SumOver(f, S) ==
  IF S = {} THEN 0
  ELSE LET x == CHOOSE y \in S : TRUE IN f[x] + SumOver(f, S \ {x})

\* enumerate index of r in its owner's listing
IndexOf(r) == RepoCount(r[1]) - r[2]

\* Another account stars r. Only stars the runner can still observe in the
\* current pass are taken: r is a record of the current target that the loop has
\* not finished and that lies within the limit. A star on any other repository
\* is seen by the runner, if at all, in a later pass over its owner, and is
\* taken at the start of that pass.
OtherStar(r) ==
  /\ pc \in {"resolve", "iter", "query", "read", "star"}
  /\ r[1] = targets[k]
  /\ IndexOf(r) >= i
  /\ IndexOf(r) < CHECK_LIMIT
  /\ SumOver(otherStars, AllRepos) < MaxOtherStars
  /\ otherStars' = [otherStars EXCEPT ![r] = @ + 1]
  /\ UNCHANGED <<config, starredByMe, pc, me, k, i, repos, current_stars, exitStatus, hist>>

Event(ev, val, est) ==
  [ev |-> ev, i |-> i, repo |-> repos[i + 1].full_name, val |-> val, est |-> est]

Init ==
  /\ tokenPresent \in BOOLEAN
  /\ targetsFound \in BOOLEAN
  /\ targets \in TargetLists
  /\ (~targetsFound => targets = <<>>)
  /\ CHECK_LIMIT \in 0..MaxLimit
  /\ starredByMe \in {{}} \cup {{r} : r \in AllRepos}
  /\ otherStars = [r \in AllRepos |-> 0]
  /\ pc = "module"
  /\ me = FALSE
  /\ k = 0
  /\ i = 0
  /\ repos = <<>>
  /\ current_stars = 0
  /\ exitStatus = -1
  /\ authCalls = 0
  /\ resolveCount = [n \in 1..MaxTargets |-> 0]
  /\ listCount = [n \in 1..MaxTargets |-> 0]
  /\ caught = "none"
  /\ examined = <<>>
  /\ lastFailed = -1
  /\ log = <<>>
  /\ rateFailed = FALSE

\* sys.exit(1), or an exception nobody catches
Exit1 ==
  /\ pc' = "exit"
  /\ exitStatus' = 1

CheckToken_noexit ==
  /\ pc = "module"
  /\ pc' = "auth"
  /\ UNCHANGED <<config, remote, me, k, i, repos, current_stars, exitStatus, hist>>

\* lines 21-24
CheckToken ==
  /\ pc = "module"
  /\ IF ~tokenPresent
       THEN Exit1
       ELSE pc' = "auth" /\ UNCHANGED exitStatus
  /\ UNCHANGED <<config, remote, me, k, i, repos, current_stars, hist>>

\* lines 48-54
Authenticate ==
  /\ pc = "auth"
  /\ authCalls' = authCalls + 1
  /\ \E ok \in BOOLEAN :
       IF ok
         THEN pc' = "load" /\ me' = TRUE /\ UNCHANGED exitStatus
         ELSE Exit1 /\ UNCHANGED me
  /\ UNCHANGED <<config, remote, k, i, repos, current_stars, resolveCount, listCount,
                 caught, examined, lastFailed, log, rateFailed>>

\* lines 56-59, with the exit of load_target_users (lines 40-42)
LoadTargets ==
  /\ pc = "load"
  /\ IF ~targetsFound \/ targets = <<>>
       THEN Exit1
       ELSE pc' = "for_target" /\ UNCHANGED exitStatus
  /\ UNCHANGED <<config, remote, me, k, i, repos, current_stars, hist>>

\* line 61: the next target, or the end of the loop
ForTarget ==
  /\ pc = "for_target"
  /\ IF k < Len(targets)
       THEN /\ k' = k + 1
            /\ pc' = "resolve"
            /\ log' = <<>>
            /\ examined' = <<>>
            /\ lastFailed' = -1
            /\ caught' = "none"
            /\ repos' = <<>>
            /\ i' = 0
       ELSE /\ pc' = "rate"
            /\ UNCHANGED <<k, log, examined, lastFailed, caught, repos, i>>
  /\ UNCHANGED <<config, remote, me, current_stars, exitStatus, authCalls, resolveCount,
                 listCount, rateFailed>>

TargetCatch_break(what) ==
  /\ caught' = what
  /\ pc' = "rate"

\* lines 93-96: the target-level handlers
TargetCatch(what) ==
  /\ caught' = what
  /\ pc' = "for_target"

\* lines 64-65: resolve the account; get_repos only builds the lazy listing
ResolveTarget ==
  /\ pc = "resolve"
  /\ resolveCount' = [resolveCount EXCEPT ![k] = @ + 1]
  /\ \E ok \in BOOLEAN :
       IF ok
         THEN /\ listCount' = [listCount EXCEPT ![k] = @ + 1]
              /\ pc' = "iter"
              /\ UNCHANGED caught
         ELSE /\ TargetCatch("resolve")
              /\ UNCHANGED listCount
  /\ UNCHANGED <<config, remote, me, k, i, repos, current_stars, exitStatus, authCalls,
                 examined, lastFailed, log, rateFailed>>

\* line 68
LimitReached_offbyone(idx) == idx > CHECK_LIMIT

LimitReached(idx) == idx >= CHECK_LIMIT

\* lines 67-69: the iterator delivers the next record, ends, or raises while
\* fetching. The first step fetches the records, with the counts of that moment.
\* Where the later page fetches fall depends on per_page and on the platform, so
\* any later step that has a record left to deliver may raise as well.
IterNext ==
  /\ pc = "iter"
  /\ \E ok \in BOOLEAN :
       LET fetched == IF i = 0 THEN get_repos(targets[k]) ELSE repos IN
       IF ~ok
         THEN /\ i < RepoCount(targets[k])
              /\ TargetCatch("iter")
              /\ UNCHANGED <<repos, log>>
         ELSE /\ repos' = fetched
              /\ IF i >= Len(fetched) \/ LimitReached(i)
                   THEN pc' = "for_target" /\ UNCHANGED log
                   ELSE pc' = "query" /\ log' = <<>>
              /\ UNCHANGED caught
  /\ UNCHANGED <<config, remote, me, k, i, current_stars, exitStatus, authCalls,
                 resolveCount, listCount, examined, lastFailed, rateFailed>>

RepoCatch_abort ==
  /\ pc' = "for_target"
  /\ i' = i + 1
  /\ lastFailed' = i

RepoCatch_retry ==
  /\ pc' = "query"
  /\ i' = i
  /\ lastFailed' = i

\* lines 88-91: the repository-level handlers; the loop goes on
RepoCatch ==
  /\ pc' = "iter"
  /\ i' = i + 1
  /\ lastFailed' = i

AfterQuery_nocontinue(starred) == [pc |-> "read", i |-> i]

\* lines 72-74: continue when starred, go on otherwise
AfterQuery(starred) ==
  IF starred THEN [pc |-> "iter", i |-> i + 1] ELSE [pc |-> "read", i |-> i]

\* line 72: the platform's answer
has_in_starred(r) == r \in starredByMe

\* lines 72-74
Query ==
  /\ pc = "query"
  /\ \E ok \in BOOLEAN :
       IF ~ok
         THEN /\ log' = Append(log, Event("query_fail", 0, 0))
              /\ RepoCatch
         ELSE LET starred == has_in_starred(repos[i + 1].full_name) IN
              /\ log' = Append(log, Event(IF starred THEN "query_true" ELSE "query_false", 0, 0))
              /\ pc' = AfterQuery(starred).pc
              /\ i' = AfterQuery(starred).i
              /\ UNCHANGED lastFailed
  /\ examined' = Append(examined, repos[i + 1].full_name)
  /\ UNCHANGED <<config, remote, me, k, repos, current_stars, exitStatus, authCalls,
                 resolveCount, listCount, caught, rateFailed>>

\* lines 76-77
ReadStars ==
  /\ pc = "read"
  /\ \E ok \in BOOLEAN :
       IF ~ok
         THEN /\ log' = Append(log, Event("read_fail", 0, 0))
              /\ RepoCatch
              /\ UNCHANGED current_stars
         ELSE /\ current_stars' = repos[i + 1].stargazers_count
              /\ log' = Append(log, Event("read", repos[i + 1].stargazers_count, 0))
              /\ pc' = "star"
              /\ UNCHANGED <<i, lastFailed>>
  /\ UNCHANGED <<config, remote, me, k, repos, exitStatus, authCalls,
                 resolveCount, listCount, caught, examined, rateFailed>>

AddToStarred_signal_on_failure ==
  /\ pc = "star"
  /\ \E ok \in BOOLEAN :
       IF ~ok
         THEN /\ log' = Append(log, Event("star_fail", 0, 0))
              /\ pc' = "classify"
              /\ UNCHANGED <<i, lastFailed, starredByMe>>
         ELSE /\ starredByMe' = starredByMe \cup {repos[i + 1].full_name}
              /\ log' = Append(log, Event("star_ok", stargazers_count(repos[i + 1].full_name), 0))
              /\ pc' = "classify"
              /\ UNCHANGED <<i, lastFailed>>
  /\ UNCHANGED <<config, otherStars, me, k, repos, current_stars, exitStatus, authCalls,
                 resolveCount, listCount, caught, examined, rateFailed>>

\* line 80; the event keeps the count the platform held just before the star
AddToStarred ==
  /\ pc = "star"
  /\ \E ok \in BOOLEAN :
       IF ~ok
         THEN /\ log' = Append(log, Event("star_fail", 0, 0))
              /\ RepoCatch
              /\ UNCHANGED starredByMe
         ELSE /\ starredByMe' = starredByMe \cup {repos[i + 1].full_name}
              /\ log' = Append(log, Event("star_ok", stargazers_count(repos[i + 1].full_name), 0))
              /\ pc' = "classify"
              /\ UNCHANGED <<i, lastFailed>>
  /\ UNCHANGED <<config, otherStars, me, k, repos, current_stars, exitStatus, authCalls,
                 resolveCount, listCount, caught, examined, rateFailed>>

Signal_post_action(c) ==
  IF c = 0 THEN Event("first", 0, 0) ELSE Event("backfill", c + 1, c + 2)

\* lines 83-86
Signal(c) ==
  IF c = 0 THEN Event("first", 0, 0) ELSE Event("backfill", c, c + 1)

\* lines 81-86
Classify ==
  /\ pc = "classify"
  /\ log' = Append(log, Signal(current_stars))
  /\ pc' = "iter"
  /\ i' = i + 1
  /\ UNCHANGED <<config, remote, me, k, repos, current_stars, exitStatus, authCalls,
                 resolveCount, listCount, caught, examined, lastFailed, rateFailed>>

RateReport_raises ==
  /\ pc = "rate"
  /\ \E ok \in BOOLEAN :
       /\ rateFailed' = ~ok
       /\ IF ok THEN pc' = "done" /\ exitStatus' = 0 ELSE Exit1
  /\ UNCHANGED <<config, remote, me, k, i, repos, current_stars, authCalls, resolveCount,
                 listCount, caught, examined, lastFailed, log>>

\* lines 98-103, and the normal end of the process
RateReport ==
  /\ pc = "rate"
  /\ \E ok \in BOOLEAN : rateFailed' = ~ok
  /\ pc' = "done"
  /\ exitStatus' = 0
  /\ UNCHANGED <<config, remote, me, k, i, repos, current_stars, authCalls, resolveCount,
                 listCount, caught, examined, lastFailed, log>>

Runner ==
  \/ CheckToken
  \/ Authenticate
  \/ LoadTargets
  \/ ForTarget
  \/ ResolveTarget
  \/ IterNext
  \/ Query
  \/ ReadStars
  \/ AddToStarred
  \/ Classify
  \/ RateReport

Next ==
  \/ CheckToken
  \/ Authenticate
  \/ LoadTargets
  \/ ForTarget
  \/ ResolveTarget
  \/ IterNext
  \/ Query
  \/ ReadStars
  \/ AddToStarred
  \/ Classify
  \/ RateReport
  \/ \E r \in AllRepos : OtherStar(r)

Spec == Init /\ [][Next]_vars

\* every call of the runner returns or fails in finite time
FairSpec == Init /\ [][Next]_vars /\ WF_vars(Runner)

\* ---- reading the history ---------------------------------------------------
QueryEvs == {"query_true", "query_false", "query_fail"}
ReadEvs == {"read", "read_fail"}
StarEvs == {"star_ok", "star_fail"}
SignalEvs == {"first", "backfill"}

\* positions of the current iteration's log that hold an event of a kind in evs
At(evs) == {p \in 1..Len(log) : log[p].ev \in evs}

\* the pass over targets[k] is over and the next has not begun
PassEnded == k >= 1 /\ pc \in {"for_target", "rate", "done"}

MinOf(a, b) == IF a <= b THEN a ELSE b

\* ---- C1 ---------------------------------------------------------------------
\* C1: in a pass whose resolution and listing succeed, the repositories queried
\* are exactly the first min(CHECK_LIMIT, count) records of the listing, queried
\* in listing order, which is creation time descending: they are the most
\* recently created ones; nothing at position CHECK_LIMIT+1 or later is ever
\* queried or starred.
C1_ExaminedIsPrefix ==
  k >= 1 =>
    /\ Len(examined) <= CHECK_LIMIT
    /\ \A p \in 1..Len(log) : log[p].i < CHECK_LIMIT
    /\ \A p \in 1..Len(examined) :
         /\ examined[p] = repos[p].full_name
         /\ examined[p][1] = targets[k]
         /\ p > 1 => examined[p][2] < examined[p - 1][2]
    /\ (PassEnded /\ caught = "none") =>
         /\ Len(examined) = MinOf(CHECK_LIMIT, RepoCount(targets[k]))
         /\ \A r \in AllRepos :
              (r[1] = targets[k] /\ \A p \in 1..Len(examined) : examined[p] # r)
                => \A p \in 1..Len(examined) : r[2] < examined[p][2]

C1_Witness ==
  /\ PassEnded
  /\ caught = "none"
  /\ CHECK_LIMIT >= 2
  /\ RepoCount(targets[k]) > CHECK_LIMIT
  /\ Len(examined) = CHECK_LIMIT

\* ---- C2 ---------------------------------------------------------------------
\* the step in which the query answers "starred"
SkipStep ==
  /\ pc = "query"
  /\ log' # <<>>
  /\ log'[Len(log')].ev = "query_true"

\* C2: when the query answers true for a repository, that iteration holds no
\* count read, no star attempt and no first-star or back-fill signal, and the
\* skip leaves the platform's state as it was.
C2_StarredIsSkipped ==
  /\ [](At({"query_true"}) # {} => At(ReadEvs \cup StarEvs \cup SignalEvs) = {})
  /\ [][SkipStep => (UNCHANGED remote /\ pc' = "iter" /\ i' = i + 1)]_vars

C2_Witness ==
  /\ PassEnded
  /\ At({"query_true"}) # {}
  /\ Len(examined) >= 2

\* ---- C3 ---------------------------------------------------------------------
\* C3: once a star action has succeeded and the classification has run, the
\* iteration holds exactly one signal: first-star exactly when the count read
\* before the star action was 0, back-fill otherwise, and the back-fill carries
\* that count c and c + 1.
C3_OneSignalFromRecordedCount ==
  /\ Cardinality(At(SignalEvs)) <= 1
  /\ (At({"star_ok"}) # {} /\ pc # "classify") =>
       /\ Cardinality(At(SignalEvs)) = 1
       /\ Cardinality(At({"read"})) = 1
       /\ \A p \in At(SignalEvs) : \A q \in At({"read"}) :
            /\ log[p].repo = log[q].repo
            /\ log[p].ev = "first" <=> log[q].val = 0
            /\ log[p].ev = "backfill" =>
                 (log[p].val = log[q].val /\ log[p].est = log[q].val + 1)

C3_Witness ==
  \E p \in 1..Len(log) : log[p].ev = "backfill" /\ log[p].val >= 1 /\ log[p].est = log[p].val + 1

\* ---- C4 ---------------------------------------------------------------------
\* the iterator delivered the record of enumerate index j in the ended pass
Delivered(j) == ~(caught = "iter" /\ i <= j)

\* C4: a failure of the query, of the count read or of the star action on
\* repository j is caught at the repository level: the loop goes on behind it
\* (every index below the loop's position has been examined), so that when the
\* pass has ended repository j+1 was examined whenever it is within the limit
\* and the listing delivered it; the run does not end with status 1, and at
\* its end every target was processed.
C4_RepoFailureIsLocal ==
  /\ lastFailed >= 0 =>
       /\ i > lastFailed
       /\ Len(examined) > lastFailed
       /\ exitStatus # 1
  /\ (k >= 1 /\ pc \in {"iter", "query"}) => Len(examined) = i
  /\ (PassEnded /\ lastFailed >= 0
        /\ lastFailed + 1 < CHECK_LIMIT
        /\ lastFailed + 1 < RepoCount(targets[k])
        /\ Delivered(lastFailed + 1))
       => /\ Len(examined) >= lastFailed + 2
          /\ examined[lastFailed + 2] = <<targets[k], RepoCount(targets[k]) - lastFailed - 1>>
  /\ pc = "done" => \A n \in 1..Len(targets) : resolveCount[n] = 1

C4_Witness ==
  /\ pc = "for_target"
  /\ k < Len(targets)
  /\ lastFailed = 0
  /\ Len(examined) = 2
  /\ examined[2] = repos[2].full_name
  /\ At({"first"}) # {}
  /\ caught = "none"

\* ---- C5 ---------------------------------------------------------------------
\* C5: a failure of the resolution or of the listing is caught at the target
\* level: nothing of that target is examined from the failing position on, the
\* run does not end with status 1, and the loop goes on to every later target.
C5_TargetFailureIsLocal ==
  /\ caught = "resolve" => (examined = <<>> /\ log = <<>> /\ listCount[k] = 0)
  /\ caught = "iter" => Len(examined) = i
  /\ caught # "none" => (PassEnded /\ exitStatus # 1)
  /\ (pc = "for_target" /\ k >= 1) => \A n \in 1..k : resolveCount[n] = 1
  /\ pc \in {"rate", "done"} =>
       (k = Len(targets) /\ \A n \in 1..Len(targets) : resolveCount[n] = 1)

C5_Witness ==
  /\ pc = "for_target"
  /\ k < Len(targets)
  /\ caught = "iter"
  /\ i >= 1

\* ---- C6 ---------------------------------------------------------------------
\* C6: a run that ends with status 1 has resolved no target, examined no
\* repository and issued no star action; without a credential it has not called
\* the authentication either; and the target loop is entered only with a
\* credential, an authenticated user and a non-empty target list.
C6_FatalBeforeAnyTarget ==
  /\ exitStatus = 1 =>
       /\ \A n \in 1..MaxTargets : resolveCount[n] = 0 /\ listCount[n] = 0
       /\ log = <<>>
       /\ examined = <<>>
       /\ k = 0
       /\ ~tokenPresent => authCalls = 0
  /\ ~tokenPresent => pc \in {"module", "exit"}
  /\ (k >= 1 \/ pc \in {"for_target", "rate", "done"}) =>
       (tokenPresent /\ me /\ targetsFound /\ targets # <<>>)

C6_Witness ==
  /\ exitStatus = 1
  /\ ~tokenPresent
  /\ targets # <<>>

\* ---- C7 ---------------------------------------------------------------------
\* C7: with a credential, a successful authentication and a non-empty target
\* list, the run ends with status 0 and has visited every target, whatever
\* failed on the way.
C7_EndsWithStatus0 ==
  (pc = "load" /\ targetsFound /\ targets # <<>>)
    ~> (pc = "done" /\ exitStatus = 0 /\ \A n \in 1..Len(targets) : resolveCount[n] = 1)

C7_Witness ==
  /\ pc = "done"
  /\ exitStatus = 0
  /\ rateFailed
  /\ Len(targets) >= 2
  /\ caught = "iter"
  /\ lastFailed >= 0

\* ---- C8 ---------------------------------------------------------------------
\* C8: a first-star signal for a repository means the platform held no star of
\* it immediately before the acting account's star took effect.
C8_FirstStarMeansNoStarBefore ==
  \A p \in 1..Len(log) :
    log[p].ev = "first" =>
      \E q \in 1..(p - 1) :
        log[q].ev = "star_ok" /\ log[q].repo = log[p].repo /\ log[q].val = 0

\* ---- C9 ---------------------------------------------------------------------
\* C9: in one pass every repository gets at most one query, one count read and
\* one star attempt; every position of the target list gets at most one
\* resolution and one listing; no failure inside the loop ends the run with
\* status 1.
C9_NoRetries ==
  /\ Cardinality(At(QueryEvs)) <= 1
  /\ Cardinality(At(ReadEvs)) <= 1
  /\ Cardinality(At(StarEvs)) <= 1
  /\ \A p, q \in 1..Len(log) : log[p].repo = log[q].repo /\ log[p].i = log[q].i
  /\ \A p, q \in 1..Len(examined) : p # q => examined[p] # examined[q]
  /\ \A n \in 1..MaxTargets : resolveCount[n] <= 1 /\ listCount[n] <= 1
  /\ k >= 1 => exitStatus # 1

C9_Witness ==
  /\ pc = "iter"
  /\ At({"read_fail"}) # {}
  /\ Len(examined) >= 2

\* ---- C10 --------------------------------------------------------------------
\* C10: a signal follows a successful star action of the same iteration, a star
\* attempt follows a successful count read of the same iteration; after a
\* failed read there is no star attempt, after a failed star action no signal.
C10_ReadThenStarThenSignal ==
  /\ \A p \in 1..Len(log) :
       /\ log[p].ev \in SignalEvs => \E q \in 1..(p - 1) : log[q].ev = "star_ok"
       /\ log[p].ev \in StarEvs => \E q \in 1..(p - 1) : log[q].ev = "read"
  /\ At({"read_fail"}) # {} => At(StarEvs \cup SignalEvs) = {}
  /\ At({"star_fail"}) # {} => At(SignalEvs) = {}

C10_Witness ==
  /\ pc = "iter"
  /\ At({"star_fail"}) # {}
  /\ Len(log) = 3
====
